---------------------------- MODULE Spec2Model ----------------------------
(***************************************************************************)
(* A model of geofirestore's GeoQuery: the geohash region decomposition,   *)
(* the one-shot get() fan-out and join, and the onSnapshot listener.       *)
(*                                                                         *)
(* Angles are integers in units of 180 / HalfTurn degrees, so that every   *)
(* bisection the geohash codec makes falls on an integer.  A point is      *)
(* <<lat, lon>> with lat in [-HalfTurn/2, HalfTurn/2] and lon in           *)
(* [-HalfTurn, HalfTurn].  A geohash is a sequence of base-32 digits       *)
(* (indices into "0123456789bcdefghjkmnpqrstuvwxyz", whose character order *)
(* is the digit order).  Distances are whole kilometres.                   *)
(***************************************************************************)
EXTENDS Integers, Sequences, FiniteSets, TLC

\* ------------------------------------------------------------- bounds
\* Geohash length of a stored document (the full precision of the model).
MaxPrecision == 2

\* ------------------------------------------------------ small helpers
RECURSIVE Pow2(_)
Pow2(n) == IF n = 0 THEN 1 ELSE 2 * Pow2(n - 1)

Abs(x) == IF x < 0 THEN -x ELSE x

Min(a, b) == IF a < b THEN a ELSE b

Range(s) == {s[i] : i \in DOMAIN s}

\* Integer square root (floor), by bisection on [lo, hi].
RECURSIVE SqrtIn(_, _, _)
SqrtIn(n, lo, hi) ==
  IF lo >= hi THEN lo
  ELSE LET mid == (lo + hi + 1) \div 2
       IN  IF mid * mid <= n THEN SqrtIn(n, mid, hi) ELSE SqrtIn(n, lo, mid - 1)

ISqrt(n) == SqrtIn(n, 0, 20100)

\* ------------------------------------------------------- geohash codec
\* Bits of a geohash of precision p, and how they split: the first bit is a
\* longitude bit, then they alternate.
BitsPerChar == 5
LatBits(p) == (BitsPerChar * p) \div 2
LonBits(p) == BitsPerChar * p - LatBits(p)

\* 180 degrees, in angle units.
HalfTurn == Pow2(LatBits(MaxPrecision) + 1)

\* Height and width of a cell of precision p, in angle units.
CellLat(p) == HalfTurn \div Pow2(LatBits(p))
CellLon(p) == (2 * HalfTurn) \div Pow2(LonBits(p))

\* The points of the model: the centres of the full-precision cells.
Lats == {-(HalfTurn \div 2) + CellLat(MaxPrecision) \div 2 + CellLat(MaxPrecision) * i :
           i \in 0..(Pow2(LatBits(MaxPrecision)) - 1)}
Lons == {-HalfTurn + CellLon(MaxPrecision) \div 2 + CellLon(MaxPrecision) * j :
           j \in 0..(Pow2(LonBits(MaxPrecision)) - 1)}
Points == Lats \X Lons

validateLocation(pt) ==
  /\ pt[1] >= -(HalfTurn \div 2) /\ pt[1] <= HalfTurn \div 2
  /\ pt[2] >= -HalfTurn /\ pt[2] <= HalfTurn

\* The bit stream: bit k bisects longitude when k is even, latitude when odd.
RECURSIVE EncodeBits(_, _, _, _, _, _, _)
EncodeBits(pt, k, n, latLo, latHi, lonLo, lonHi) ==
  IF k = n THEN <<>>
  ELSE IF k % 2 = 0
       THEN LET mid == (lonLo + lonHi) \div 2
            IN  IF pt[2] >= mid
                THEN <<1>> \o EncodeBits(pt, k + 1, n, latLo, latHi, mid, lonHi)
                ELSE <<0>> \o EncodeBits(pt, k + 1, n, latLo, latHi, lonLo, mid)
       ELSE LET mid == (latLo + latHi) \div 2
            IN  IF pt[1] >= mid
                THEN <<1>> \o EncodeBits(pt, k + 1, n, mid, latHi, lonLo, lonHi)
                ELSE <<0>> \o EncodeBits(pt, k + 1, n, latLo, mid, lonLo, lonHi)

\* Five bits, most significant first, packed into one base-32 digit.
PackCharReversed(bits, c) ==
  bits[5 * c - 4] + 2 * bits[5 * c - 3] + 4 * bits[5 * c - 2] + 8 * bits[5 * c - 1]
    + 16 * bits[5 * c]

PackChar(bits, c) ==
  16 * bits[5 * c - 4] + 8 * bits[5 * c - 3] + 4 * bits[5 * c - 2]
    + 2 * bits[5 * c - 1] + bits[5 * c]

encodeGeohash(pt, p) ==
  LET bits == EncodeBits(pt, 0, BitsPerChar * p, -(HalfTurn \div 2), HalfTurn \div 2,
                         -HalfTurn, HalfTurn)
  IN  [c \in 1..p |-> PackChar(bits, c)]

\* Bit b (1 = most significant) of base-32 digit d.
DigitBit(d, b) == (d \div Pow2(BitsPerChar - b)) % 2

\* The inverse bisection: the box [latLo, latHi, lonLo, lonHi] of the strings
\* with this prefix.
RECURSIVE DecodeBits(_, _, _, _, _, _)
DecodeBits(hash, k, latLo, latHi, lonLo, lonHi) ==
  IF k = BitsPerChar * Len(hash) THEN <<latLo, latHi, lonLo, lonHi>>
  ELSE LET bit == DigitBit(hash[(k \div BitsPerChar) + 1], (k % BitsPerChar) + 1)
       IN  IF k % 2 = 0
           THEN LET mid == (lonLo + lonHi) \div 2
                IN  IF bit = 1
                    THEN DecodeBits(hash, k + 1, latLo, latHi, mid, lonHi)
                    ELSE DecodeBits(hash, k + 1, latLo, latHi, lonLo, mid)
           ELSE LET mid == (latLo + latHi) \div 2
                IN  IF bit = 1
                    THEN DecodeBits(hash, k + 1, mid, latHi, lonLo, lonHi)
                    ELSE DecodeBits(hash, k + 1, latLo, mid, lonLo, lonHi)

decodeBoundingBox(hash) ==
  DecodeBits(hash, 0, -(HalfTurn \div 2), HalfTurn \div 2, -HalfTurn, HalfTurn)

\* ------------------------------------------------ great-circle distance
\* Half the earth's circumference, in km.
KmHalfTurn == 20015

\* Fixed-point scales of the haversine terms and of the cosines.
HavScale == 100000
CosScale == 1000

\* x^2 / (HalfTurn^2 + x^2), scaled: two fifths of the haversine of x under
\* Bhaskara's rational cosine, for 0 <= x <= HalfTurn.
RECURSIVE HavTerm(_)
HavTerm(x) ==
  IF 2 * x <= HalfTurn
  THEN (x * x * HavScale) \div (HalfTurn * HalfTurn + x * x)
  ELSE (2 * HavScale) \div 5 - HavTerm(HalfTurn - x)

\* Bhaskara's cosine of a latitude, scaled.
CosLat(lat) ==
  ((HalfTurn * HalfTurn - 4 * lat * lat) * CosScale) \div (HalfTurn * HalfTurn + lat * lat)

\* The arc whose haversine term is t (t at most a fifth of the scale), in km.
ArcKm(t) == ISqrt(((KmHalfTurn * KmHalfTurn) \div (HavScale - t)) * t)

\* Great-circle distance between two points, in km.
calculateDistance(p1, p2) ==
  LET a   == Abs(p1[1] - p2[1])
      b0  == Abs(p1[2] - p2[2])
      b   == Min(b0, 2 * HalfTurn - b0)
      c12 == (CosLat(p1[1]) * CosLat(p2[1])) \div CosScale
      t   == HavTerm(a) + (c12 * HavTerm(b)) \div CosScale
      far == (2 * HavScale) \div 5 - t
  IN  IF 5 * t > HavScale
      THEN KmHalfTurn - ArcKm(IF far < 0 THEN 0 ELSE far)
      ELSE ArcKm(t)

\* --------------------------------------------------- region decomposer
\* Cell dimensions per precision, in km: <<latKm, lonKmAtEquator>>.
cellSize(p) == <<KmHalfTurn \div Pow2(LatBits(p)), (2 * KmHalfTurn) \div Pow2(LonBits(p))>>

\* The largest precision whose cell has both dimensions >= 2 * radiusKm,
\* clamped to 1..MaxPrecision.
choosePrecision(radiusKm) ==
  LET fits == {p \in 1..MaxPrecision :
                 cellSize(p)[1] >= 2 * radiusKm /\ cellSize(p)[2] >= 2 * radiusKm}
  IN  IF fits = {} THEN 1 ELSE CHOOSE p \in fits : \A o \in fits : o <= p

\* Longitude wraps at +-180 degrees.
wrapLongitude(lon) == ((lon + HalfTurn) % (2 * HalfTurn)) - HalfTurn

\* The central cell and its geographic neighbours: the centre of the decoded
\* box, offset by whole cells and encoded again; a neighbour beyond a pole is
\* dropped.
neighborCells(center, p) ==
  LET box  == decodeBoundingBox(encodeGeohash(center, p))
      latC == (box[1] + box[2]) \div 2
      lonC == (box[3] + box[4]) \div 2
      offs == {<<latC + dLat * (box[2] - box[1]), lonC + dLon * (box[4] - box[3])>> :
                 dLat \in {-1, 0, 1}, dLon \in {-1, 0, 1}}
  IN  {encodeGeohash(<<o[1], wrapLongitude(o[2])>>, p) :
         o \in {x \in offs : x[1] > -(HalfTurn \div 2) /\ x[1] < HalfTurn \div 2}}

\* The least and greatest base-32 digits ('0' and 'z').
MinDigit == 0
MaxDigit == 31

\* A prefix padded to full length with one digit.
padTo(prefix, digit) ==
  [i \in 1..MaxPrecision |-> IF i <= Len(prefix) THEN prefix[i] ELSE digit]

\* The range of a cell: every full-length string with its prefix.
cellRange(prefix) == <<padTo(prefix, MinDigit), padTo(prefix, MaxDigit)>>

\* A full-length geohash as a number: string order is number order.
RECURSIVE HashValue(_)
HashValue(h) ==
  IF h = <<>> THEN 0
  ELSE (MaxDigit + 1) * HashValue(SubSeq(h, 1, Len(h) - 1)) + h[Len(h)]

\* Lexicographic order on geohash strings of full length.
HashLeq(a, b) == HashValue(a) <= HashValue(b)

\* A set of ranges as a sequence in ascending order of start.
RECURSIVE sortRanges(_)
sortRanges(rs) ==
  IF rs = {} THEN <<>>
  ELSE LET first == CHOOSE r \in rs : \A o \in rs : HashValue(r[1]) <= HashValue(o[1])
       IN  <<first>> \o sortRanges(rs \ {first})

\* Adjacent and overlapping ranges of a sorted sequence merged.
RECURSIVE mergeRanges(_)
mergeRanges(rs) ==
  IF Len(rs) <= 1 THEN rs
  ELSE LET a == rs[1]
           b == rs[2]
       IN  IF HashValue(b[1]) <= HashValue(a[2]) + 1
           THEN mergeRanges(<<<<a[1], IF HashLeq(a[2], b[2]) THEN b[2] ELSE a[2]>>>>
                              \o SubSeq(rs, 3, Len(rs)))
           ELSE <<a>> \o mergeRanges(Tail(rs))

\* The covering ranges of the circle around center, radius in km.
coveringRanges(center, radiusKm) ==
  mergeRanges(sortRanges({cellRange(c) :
                            c \in neighborCells(center, choosePrecision(radiusKm))}))

\* utils.geohashQueries, called with the radius in metres.
geohashQueries(center, radiusMeters) == coveringRanges(center, radiusMeters \div 1000)

\* ------------------------------------------------------------- values
\* JavaScript's undefined, where a point and where a number is expected (TLC
\* compares values of one kind only).
UndefinedPoint == <<>>
UndefinedNumber == -1

\* The ':' that joins the two ends of an encoded query (no base-32 digit).
Colon == 58

\* ---------------------------------------------------- the native store
\* Documents of the collection, by id.
NumDocs == 2
DocIds == 1..NumDocs

\* A payload d: a location under the default key, one under a custom key,
\* and another field; UndefinedPoint and UndefinedNumber stand for a key the
\* payload does not have.
Payload(coordinates, place, count) ==
  [coordinates |-> coordinates, place |-> place, count |-> count]

NoPayload == Payload(UndefinedPoint, UndefinedPoint, UndefinedNumber)

\* The key of the location when the caller names none, a custom key, and
\* no key named.
DefaultKey == "coordinates"
CustomKey == "place"
NoKey == "none"

\* SetOptions: the custom key and whether to merge.
SetOptions(customKey, merge) == [customKey |-> customKey, merge |-> merge]

\* No document under an id.
NoDoc == [g |-> <<>>, l |-> <<>>, d |-> NoPayload]

\* A location given in units of 180/64 degrees.
Place(lat, lon) == <<(lat * HalfTurn) \div 64, (lon * HalfTurn) \div 64>>

\* The stored form of a document at a location: {g, l, d}, the location
\* under the default key of d.
StoredAt(pt) ==
  [g |-> encodeGeohash(pt, MaxPrecision), l |-> pt,
   d |-> Payload(pt, UndefinedPoint, UndefinedNumber)]

\* A native query on the collection: the whole collection, or the range
\* orderBy('g').startAt(startAt).endAt(endAt); limit is UndefinedNumber or a count.
\* where holds the equality filters of the query, each a field path and a value.
WholeQuery ==
  [kind |-> "all", startAt |-> <<>>, endAt |-> <<>>, limit |-> UndefinedNumber, where |-> {}]

RangeQuery(base, startAt, endAt) ==
  [kind |-> "range", startAt |-> startAt, endAt |-> endAt, limit |-> base.limit,
   where |-> base.where]

\* native.where(fieldPath, '==', value)
nativeWhere(nq, fieldPath, value) ==
  [nq EXCEPT !.where = @ \cup {[path |-> fieldPath, value |-> value]}]

\* The number a stored document {g, l, d} holds at a field path: the payload
\* is under d, and count is the number field of a payload.
fieldAt(doc, fieldPath) ==
  IF fieldPath = <<"d", "count">> THEN doc.d.count ELSE UndefinedNumber

nativeLimit(nq, n) == [nq EXCEPT !.limit = n]

\* Whether a stored document matches a native query.
Matches(nq, doc) ==
  /\ \/ nq.kind = "all"
     \/ /\ nq.kind = "range"
        /\ HashLeq(nq.startAt, doc.g)
        /\ HashLeq(doc.g, nq.endAt)
  /\ \A f \in nq.where : fieldAt(doc, f.path) = f.value

\* The ids of a set in the order a native query returns them: by g when the
\* query is ordered by g, then by id.
RECURSIVE NativeOrder(_, _, _)
NativeOrder(nq, st, ids) ==
  IF ids = {} THEN <<>>
  ELSE LET key(i) == IF nq.kind = "range" THEN HashValue(st[i].g) ELSE 0
           first  == CHOOSE i \in ids :
                       \A o \in ids : key(i) < key(o) \/ (key(i) = key(o) /\ i <= o)
       IN  <<first>> \o NativeOrder(nq, st, ids \ {first})

\* The first n elements of a sequence; all of it when n is undefined.
Truncate(seq, n) ==
  IF n = UndefinedNumber \/ n >= Len(seq) THEN seq ELSE SubSeq(seq, 1, n)

\* The QuerySnapshot.docs a native query reads from a store.
NativeDocs(nq, st) ==
  LET ids   == {i \in DocIds : st[i] # NoDoc /\ Matches(nq, st[i])}
      order == Truncate(NativeOrder(nq, st, ids), nq.limit)
  IN  [k \in 1..Len(order) |-> [id |-> order[k], g |-> st[order[k]].g, l |-> st[order[k]].l]]

\* --------------------------------------------------- GeoQuery helpers
\* A throw, in place of the value of the call that threw: the error thrown.
Threw(error) == [threw |-> error]

\* Whether a call threw.
IsThrow(value) == DOMAIN value = {"threw"}

\* GeoQuery._queryToString: Error unless the query has two parts, else
\* query[0] + ':' + query[1].
queryToString(query) ==
  IF Len(query) # 2 THEN Threw("Error") ELSE query[1] \o <<Colon>> \o query[2]

\* str.split(':')
RECURSIVE splitColon(_)
splitColon(str) ==
  IF \A i \in DOMAIN str : str[i] # Colon THEN <<str>>
  ELSE LET i == CHOOSE k \in DOMAIN str : str[k] = Colon /\ \A j \in 1..(k - 1) : str[j] # Colon
       IN  <<SubSeq(str, 1, i - 1)>> \o splitColon(SubSeq(str, i + 1, Len(str)))

\* GeoQuery._stringToQuery: the decoded [start, end] pair, Error unless the
\* string splits in two parts.
stringToQuery(str) ==
  LET decoded == splitColon(str)
  IN  IF Len(decoded) # 2 THEN Threw("Error") ELSE decoded

\* An indexOf that finds everything at the start.
indexOfStart(arr, x) == 1

\* arr.indexOf(x)
indexOf(arr, x) == CHOOSE i \in DOMAIN arr : arr[i] = x /\ \A j \in 1..(i - 1) : arr[j] # x

\* arr.filter(keep), keep a predicate on indices.
RECURSIVE filterIdx(_, _, _)
filterIdx(arr, keep(_), i) ==
  IF i > Len(arr) THEN <<>>
  ELSE (IF keep(i) THEN <<arr[i]>> ELSE <<>>) \o filterIdx(arr, keep, i + 1)

\* The native query the range reads are built from: this.native.
rangeBase(native, limit) == native

\* GeoQuery._generateQuery: one native range query per distinct geohash query.
generateQuery(native, center, radius, limit) ==
  LET queries == geohashQueries(center, radius * 1000)
      strs    == [i \in DOMAIN queries |-> queryToString(queries[i])]
      keep(i) == indexOf(strs, strs[i]) = i
      uniq    == filterIdx(strs, keep, 1)
  IN  [i \in DOMAIN uniq |->
         LET query == stringToQuery(uniq[i])
         IN  RangeQuery(rangeBase(native, limit), query[1], query[2])]

\* ------------------------------------------------ snapshots and joiner
\* QueryCriteria: center, radius and limit, each possibly undefined.
Criteria(center, radius, limit) == [center |-> center, radius |-> radius, limit |-> limit]

\* No criteria given (an absent criteria and one with no field set are read alike).
NoCriteria == Criteria(UndefinedPoint, UndefinedNumber, UndefinedNumber)

\* A GeoQueryDocumentSnapshot: the native document with its distance from
\* the center, or undefined when there is no center.
generateGeoQueryDocumentSnapshot(doc, center) ==
  [id |-> doc.id, l |-> doc.l,
   distance |-> IF center = UndefinedPoint THEN UndefinedNumber
                ELSE calculateDistance(center, doc.l)]

\* The body of the GeoQuerySnapshot constructor: _docs, each native document
\* with its distance from the center of the criteria, and the criteria.
ResultRecords(docs, criteria) ==
  [docs |-> [i \in DOMAIN docs |->
               generateGeoQueryDocumentSnapshot(docs[i], criteria.center)],
   criteria |-> criteria]

\* All documents of a sequence of native snapshots, in order.
RECURSIVE flatten(_)
flatten(snapshots) ==
  IF snapshots = <<>> THEN <<>> ELSE Head(snapshots) \o flatten(Tail(snapshots))

\* One document per identity: the last one read.
dedupe(docs) ==
  LET keep(i) == \A j \in (i + 1)..Len(docs) : docs[j].id # docs[i].id
  IN  filterIdx(docs, keep, 1)

\* The documents no farther from the center than the radius.
withinRadius(docs, center, radius) ==
  LET keep(i) == calculateDistance(center, docs[i].l) <= radius
  IN  filterIdx(docs, keep, 1)

\* Ascending by distance from the center, ties by document id.
RECURSIVE sortByDistance(_, _)
sortByDistance(docs, center) ==
  IF docs = <<>> THEN <<>>
  ELSE LET d(i)  == calculateDistance(center, docs[i].l)
           first == CHOOSE i \in DOMAIN docs :
                      \A o \in DOMAIN docs :
                        d(i) < d(o) \/ (d(i) = d(o) /\ docs[i].id <= docs[o].id)
           rest(i) == i # first
       IN  <<docs[first]>> \o sortByDistance(filterIdx(docs, rest, 1), center)

\* GeoJoinerGet: the native documents of the merged snapshot.
GeoJoinerGet(snapshots, criteria) ==
  Truncate(sortByDistance(withinRadius(dedupe(flatten(snapshots)),
                                       criteria.center, criteria.radius),
                          criteria.center),
           criteria.limit)

\* ---------------------------------------------------- bounds and inputs
\* Writes other clients make to the store during a run.
MaxWrites == 1
\* near() and limit() calls made on the query during a run.
MaxCalls == 2
\* Calls of the function onSnapshot() returned during a run.
MaxUnsubs == 2
\* Write calls made through the Geo wrappers during a run.
MaxGeoWrites == 2
\* Native writes pending at once.
MaxPending == 1

\* Where documents lie: the query center, one cell north and south of it
\* (equally far), one cell west (in another range), two cells north (inside
\* a covering range, outside the radius) and half a world away.
Home == Place(17, 2)
DocPlaces == {Home, Place(19, 2), Place(15, 2), Place(17, -2), Place(21, 2), Place(17, -62)}

\* Radii (km) and limits the caller passes.
SmallRadius == 1000
LargeRadius == 1500
QueryLimits == {1, 2}

\* The criteria GeoQuery is constructed with.
InitCriteria ==
  {Criteria(c, r, l) : c \in {Home, UndefinedPoint},
                       r \in {SmallRadius, UndefinedNumber},
                       l \in QueryLimits \cup {UndefinedNumber}}

\* The criteria near() is called with (center and radius each optional).
NearCriteria ==
  {Criteria(c, r, UndefinedNumber) : c \in {Place(19, 2), UndefinedPoint},
                                      r \in {LargeRadius, UndefinedNumber}}

\* A point that is no location (latitude 180 degrees).
BadPoint == <<HalfTurn, 0>>

\* Any criteria a caller may pass to the constructor or to near(): a center
\* that is a location, one that is none, or no center; a radius that is
\* positive, zero, negative, or no radius.
AnyCriteria ==
  {Criteria(c, r, l) : c \in {Home, BadPoint, UndefinedPoint},
                       r \in {SmallRadius, 0, -SmallRadius, UndefinedNumber},
                       l \in {1, UndefinedNumber}}

\* The field paths and values where() is called with.
FieldPaths == {<<"count">>}
FieldValues == {7}

\* Any limit a caller may pass to limit().
AnyLimits == {0, 1, 2}

\* The payloads callers write, the keys they name and the wrappers they use.
WritePayloads ==
  {Payload(Home, UndefinedPoint, 7),
   Payload(Home, UndefinedPoint, UndefinedNumber),
   Payload(Place(19, 2), UndefinedPoint, UndefinedNumber),
   Payload(BadPoint, UndefinedPoint, UndefinedNumber),
   Payload(UndefinedPoint, Place(15, 2), 7),
   Payload(UndefinedPoint, Place(21, 2), UndefinedNumber),
   Payload(Home, Place(15, 2), UndefinedNumber),
   Payload(UndefinedPoint, UndefinedPoint, 7)}
WriteKeys == {NoKey, CustomKey}
WriteOptions == {SetOptions(k, m) : k \in WriteKeys, m \in BOOLEAN}
StagingWrappers == {"batch", "transaction"}

\* A payload that is no object (an array), and the payloads add() is called with.
ArrayPayload == [array |-> TRUE]
AddPayloads == WritePayloads \cup {ArrayPayload}

\* Every point of whole units, bounds of the ranges and cell edges included.
GridPoints == (-(HalfTurn \div 2)..(HalfTurn \div 2)) \X (-HalfTurn..HalfTurn)

\* The radii of the decomposition check.
CoverRadii == {100, 300, SmallRadius, 2500, 6000}

\* ------------------------------------------------------------- state
VARIABLES
  store,      \* the collection: DocIds -> stored document {g, l, d} or NoDoc
  writes,     \* writes made by other clients so far
  qNative,    \* GeoQuery.native: the native query the GeoQuery wraps
  qCenter,    \* GeoQuery._center
  qRadius,    \* GeoQuery._radius
  qLimit,     \* GeoQuery._limit
  calls,      \* near(), limit() and where() calls made on the query so far
  getState,   \* the promise get() returned: idle, pending, fulfilled, rejected
  getMode,    \* the branch get() took: geo or plain
  reads,      \* the native reads get() issued: [query, status, docs]
  result,     \* what get() resolved with (at most one): records and criteria
  getError,   \* what get() was rejected with: the read that failed, or a throw
  listeners,  \* the native listeners onSnapshot() attached: [query, status, last]
  hasOnError, \* whether onSnapshot() was given an onError callback
  emitted,    \* the calls of onNext, in order: the snapshot passed and its changes
  errors,     \* the number of calls of onError
  closed,     \* whether the function onSnapshot() returned has been called
  unsubs,     \* the number of calls of the function onSnapshot() returned
  staged,     \* the writes a GeoWriteBatch or GeoTransaction holds, uncommitted
  inflight,   \* the native writes called whose promise is pending: the store has not answered
  wrote,      \* per document, the write call that last reached the store
  locatedAt,  \* per document, the location key of the last write that held a location
  geoWrites,  \* write calls made through the Geo wrappers so far
  outcome,    \* what came of the last of them, or of the store's answer to one
  codec,      \* a use of the geohash codec: [point, precision, hash, box]
  made        \* the last call that constructs a wrapper: what it was given and what came of it

liveVars == <<listeners, hasOnError, emitted, errors, closed, unsubs>>

writeVars == <<staged, inflight, wrote, locatedAt, geoWrites, outcome>>

vars == <<store, writes, qNative, qCenter, qRadius, qLimit, calls, getState, getMode, reads,
          result, getError, listeners, hasOnError, emitted, errors, closed, unsubs,
          staged, inflight, wrote, locatedAt, geoWrites, outcome, codec, made>>

queryVars == <<qNative, qCenter, qRadius, qLimit, calls, getState, getMode, reads, result, getError>>

\* ------------------------------------------------------------ GeoQuery
\* JavaScript truthiness of a criteria field.
Truthy(x) == x # UndefinedNumber /\ x # 0
TruthyPoint(x) == x # UndefinedPoint

\* validateQueryCriteria: a given center is a location, a given radius is
\* positive.
validateQueryCriteria(criteria) ==
  /\ criteria.center # UndefinedPoint => validateLocation(criteria.center)
  /\ criteria.radius # UndefinedNumber => criteria.radius > 0

\* validateLimit: a positive count.
validateLimit(limit) == limit \in Nat /\ limit > 0

\* The fields of a new GeoQuery, each stored when it is given.
GeoQueryNewEach(queryCriteria) ==
  [center |-> queryCriteria.center,
   radius |-> IF Truthy(queryCriteria.radius) THEN queryCriteria.radius ELSE UndefinedNumber,
   limit  |-> IF Truthy(queryCriteria.limit)
              THEN queryCriteria.limit ELSE UndefinedNumber]

\* The fields the constructor leaves in a new GeoQuery.
GeoQueryNew(queryCriteria) ==
  LET geo == TruthyPoint(queryCriteria.center) /\ Truthy(queryCriteria.radius)
  IN  [center |-> IF geo THEN queryCriteria.center ELSE UndefinedPoint,
       radius |-> IF geo THEN queryCriteria.radius ELSE UndefinedNumber,
       limit  |-> IF Truthy(queryCriteria.limit)
                  THEN queryCriteria.limit ELSE UndefinedNumber]

\* ------------------------------------------------------- constructors
\* The natives a caller may hand to a wrapper: an instance of the Firestore
\* class the wrapper is for, an object literal with no fields, and values
\* that are no objects.
ValidNative == "instance"
InvalidNatives == {"null", "undefined", "boolean", "number", "string", "array", "function"}
Natives == {ValidNative, "emptyObject"} \cup InvalidNatives

\* Object.prototype.toString.call(native)
ObjectToString(native) ==
  CASE native \in {ValidNative, "emptyObject"} -> "[object Object]"
    [] native = "null"      -> "[object Null]"
    [] native = "undefined" -> "[object Undefined]"
    [] native = "boolean"   -> "[object Boolean]"
    [] native = "number"    -> "[object Number]"
    [] native = "string"    -> "[object String]"
    [] native = "array"     -> "[object Array]"
    [] native = "function"  -> "[object Function]"

\* The Geo wrappers, and those with property initializers that read fields
\* of the native (firestore, id, parent, path, exists, ref).
Wrappers == {"GeoFirestore", "GeoCollectionReference", "GeoDocumentReference",
             "GeoDocumentSnapshot", "GeoWriteBatch", "GeoTransaction"}
InitializerReaders == {"GeoQuery", "GeoCollectionReference", "GeoDocumentReference",
                       "GeoDocumentSnapshot"}

NoError == "none"

\* What the property initializers of a wrapper throw. They run once the
\* parameter property native is assigned and before the constructor body:
\* reading a field of null or undefined is a TypeError; of another native
\* that is no instance the field is undefined, so that
\* new GeoFirestore(this.native.firestore) throws Error, and
\* new GeoDocumentReference(this.native.ref), in a GeoDocumentSnapshot,
\* TypeError.
initializerError(wrapper, native) ==
  IF wrapper \notin InitializerReaders \/ native = ValidNative THEN NoError
  ELSE IF native \in {"null", "undefined"} \/ wrapper = "GeoDocumentSnapshot" THEN "TypeError"
  ELSE "Error"

\* A constructor whose body tests typeof native === 'object' instead.
constructorErrorTypeof(wrapper, native) ==
  IF initializerError(wrapper, native) # NoError THEN initializerError(wrapper, native)
  ELSE IF native \notin {ValidNative, "emptyObject", "null", "array"} THEN "Error"
  ELSE NoError

\* What a wrapper constructor throws for a native: what its initializers
\* throw, else Error from its body when the native is no '[object Object]'.
constructorError(wrapper, native) ==
  IF initializerError(wrapper, native) # NoError THEN initializerError(wrapper, native)
  ELSE IF ObjectToString(native) # "[object Object]" THEN "Error"
  ELSE NoError

\* What the GeoQuery constructor throws: as any wrapper for its native, and
\* Error for criteria with a center and a radius that are not valid.
GeoQueryError(native, criteria) ==
  IF constructorError("GeoQuery", native) # NoError THEN constructorError("GeoQuery", native)
  ELSE IF /\ TruthyPoint(criteria.center) /\ Truthy(criteria.radius)
          /\ ~validateQueryCriteria(criteria) THEN "Error"
  ELSE NoError

\* No GeoQuery, and no call yet.
NoQuery == [none |-> TRUE]
NoMade == [via |-> "none", wrapper |-> "none", native |-> "none", arg |-> NoCriteria,
           threw |-> NoError, query |-> NoQuery, on |-> NoQuery]

\* A call that threw before it constructed anything.
Thrown(via, wrapper, native, arg) ==
  [via |-> via, wrapper |-> wrapper, native |-> native, arg |-> arg,
   threw |-> "Error", query |-> NoQuery, on |-> NoQuery]

\* new GeoQuery(native, criteria), reached through via with the argument
\* arg; nq is the native query when native is one.
NewGeoQuery(via, native, arg, criteria, nq) ==
  [via |-> via, wrapper |-> "GeoQuery", native |-> native, arg |-> arg,
   threw |-> GeoQueryError(native, criteria),
   query |-> IF GeoQueryError(native, criteria) = NoError
             THEN GeoQueryNew(criteria) ELSE NoQuery,
   on    |-> IF GeoQueryError(native, criteria) = NoError THEN nq ELSE NoQuery]

\* GeoQuery._queryCriteria
queryCriteria == Criteria(qCenter, qRadius, qLimit)

\* The condition get() branches on.
IsGeo == TruthyPoint(qCenter) /\ qRadius # UndefinedNumber

\* The reads get() issues, all pending.
Issue(queries) ==
  [i \in DOMAIN queries |-> [query |-> queries[i], status |-> "pending", docs |-> <<>>]]

\* A join that waits for every read and fulfils with those that resolved.
PromiseAllSettled(rs) ==
  IF \A i \in DOMAIN rs : rs[i].status # "pending" THEN "fulfilled" ELSE "pending"

\* Promise.all over the reads: rejected as soon as one is, fulfilled once all are.
PromiseAll(rs) ==
  IF \E i \in DOMAIN rs : rs[i].status = "rejected" THEN "rejected"
  ELSE IF \A i \in DOMAIN rs : rs[i].status = "resolved" THEN "fulfilled"
  ELSE "pending"

\* new GeoQuerySnapshot(native, criteria) of a native snapshot with the
\* documents nativeDocs: it throws, whatever it is given. The property
\* initializers run before the constructor body: query, a
\* new GeoQuery(this.native.query, this._queryCriteria), throws for criteria
\* the GeoQuery constructor rejects, and size reads this._docs.length while
\* _docs, which the body assigns, is still undefined: TypeError. The body,
\* which would build the records, is never reached.
GeoQuerySnapshot(nativeDocs, criteria) ==
  LET initializers == IF GeoQueryError(ValidNative, criteria) # NoError
                      THEN GeoQueryError(ValidNative, criteria)
                      ELSE "TypeError"
  IN  IF initializers # NoError THEN Threw(initializers)
      ELSE ResultRecords(nativeDocs, criteria)

\* The snapshots of the reads, in the order the reads were issued.
Values(rs) == [i \in DOMAIN rs |-> rs[i].docs]

\* GeoJoinerGet.getGeoQuerySnapshot(): the GeoQuerySnapshot of the merge, a
\* new GeoQuerySnapshot of the merged documents and the criteria.
getGeoQuerySnapshot(snapshots, criteria) ==
  GeoQuerySnapshot(GeoJoinerGet(snapshots, criteria), criteria)

\* The then() callbacks of get(), called once its reads have resolved: the
\* snapshot of the joiner in the geo branch, new GeoQuerySnapshot(snapshot)
\* in the plain one.
getThen(mode, rs, criteria) ==
  IF mode = "geo"
  THEN getGeoQuerySnapshot(Values(rs), criteria)
  ELSE GeoQuerySnapshot(rs[1].docs, NoCriteria)

\* What get() is rejected with: the error of the read that failed, or what
\* its then() callback threw.
NoRejection == [none |-> TRUE]
ReadError(i) == [read |-> i]

\* The promise of get() after one of its reads settled (rs: the reads
\* after): rejected when a read is, and, once all have resolved, fulfilled
\* with what the then() callback returns or rejected with what it throws.
Settle(i, rs) ==
  LET all   == PromiseAll(rs)
      value == getThen(getMode, rs, queryCriteria)
      after == IF getState # "pending" THEN getState
               ELSE IF all = "fulfilled" /\ IsThrow(value) THEN "rejected"
               ELSE all
  IN  /\ reads' = rs
      /\ getState' = after
      /\ result' = IF getState = "pending" /\ after = "fulfilled"
                   THEN Append(result, value) ELSE result
      /\ getError' = IF getState = "pending" /\ after = "rejected"
                     THEN (IF all = "rejected" THEN ReadError(i) ELSE value)
                     ELSE getError

\* The native query get() reads when the query is not a geo query.
plainQuery(native, limit) == IF Truthy(limit) THEN nativeLimit(native, limit) ELSE native

\* GeoQuery.get()
Get ==
  /\ getState = "idle"
  /\ getState' = "pending"
  /\ getMode' = IF IsGeo THEN "geo" ELSE "plain"
  /\ reads' = IF IsGeo
              THEN Issue(generateQuery(qNative, qCenter, qRadius, qLimit))
              ELSE Issue(<<plainQuery(qNative, qLimit)>>)
  /\ UNCHANGED <<qNative, store, writes, qCenter, qRadius, qLimit, calls, result, getError, liveVars, writeVars, codec, made>>

\* A native read completes with the documents the store holds now.
ReadResolve(i) ==
  /\ reads[i].status = "pending"
  /\ Settle(i, [reads EXCEPT ![i] = [query  |-> reads[i].query,
                                      status |-> "resolved",
                                      docs   |-> NativeDocs(reads[i].query, store)]])
  /\ UNCHANGED <<qNative, store, writes, qCenter, qRadius, qLimit, calls, getMode, liveVars, writeVars, codec, made>>

\* A native read fails.
ReadReject(i) ==
  /\ reads[i].status = "pending"
  /\ Settle(i, [reads EXCEPT ![i] = [@ EXCEPT !.status = "rejected"]])
  /\ UNCHANGED <<qNative, store, writes, qCenter, qRadius, qLimit, calls, getMode, liveVars, writeVars, codec, made>>

\* GeoQuery.limit(limit), on the receiver.
Limit(limit) ==
  /\ calls < MaxCalls
  /\ calls' = calls + 1
  /\ IF validateLimit(limit)
     THEN /\ qLimit' = limit
          /\ made' = NewGeoQuery("limit", ValidNative, Criteria(UndefinedPoint, UndefinedNumber, limit),
                                 Criteria(qCenter, qRadius, limit), qNative)
     ELSE /\ qLimit' = qLimit
          /\ made' = Thrown("limit", "GeoQuery", ValidNative,
                            Criteria(UndefinedPoint, UndefinedNumber, limit))
  /\ UNCHANGED <<qNative, store, writes, qCenter, qRadius, getState, getMode, reads, result,
                 getError, liveVars, writeVars, codec>>

\* GeoQuery.near(newGeoQueryCriteria), on the receiver.
Near(newGeoQueryCriteria) ==
  /\ calls < MaxCalls
  /\ calls' = calls + 1
  /\ IF validateQueryCriteria(newGeoQueryCriteria)
     THEN /\ qCenter' = IF TruthyPoint(newGeoQueryCriteria.center)
                        THEN newGeoQueryCriteria.center ELSE qCenter
          /\ qRadius' = IF Truthy(newGeoQueryCriteria.radius)
                        THEN newGeoQueryCriteria.radius ELSE qRadius
          /\ made' = NewGeoQuery("near", ValidNative, newGeoQueryCriteria,
                                 Criteria(qCenter', qRadius', qLimit), qNative)
     ELSE /\ qCenter' = qCenter
          /\ qRadius' = qRadius
          /\ made' = Thrown("near", "GeoQuery", ValidNative, newGeoQueryCriteria)
  /\ UNCHANGED <<qNative, store, writes, qLimit, getState, getMode, reads, result, getError, liveVars, writeVars, codec>>

\* The field path where() filters the native query on: the path inside d.
wherePath(fieldPath) == IF fieldPath # <<>> THEN <<"d">> \o fieldPath ELSE fieldPath

\* GeoQuery.where(fieldPath, '==', value): a new GeoQuery on the filtered
\* native query, with the criteria of the receiver.
Where(fieldPath, value) ==
  /\ calls < MaxCalls
  /\ calls' = calls + 1
  /\ made' = NewGeoQuery("where", ValidNative, NoCriteria, queryCriteria,
                         nativeWhere(qNative, wherePath(fieldPath), value))
  /\ UNCHANGED <<qNative, store, writes, qCenter, qRadius, qLimit, getState, getMode, reads, result,
                 getError, liveVars, writeVars, codec>>

\* The caller goes on with the GeoQuery that near(), limit() or where()
\* returned.
Adopt ==
  /\ getState = "idle"
  /\ made.via \in {"near", "limit", "where"}
  /\ made.threw = NoError
  /\ qNative' = made.on
  /\ qCenter' = made.query.center
  /\ qRadius' = made.query.radius
  /\ qLimit' = made.query.limit
  /\ calls' = 0
  /\ made' = NoMade
  /\ UNCHANGED <<store, writes, getState, getMode, reads, result, getError, liveVars,
                 writeVars, codec>>

\* new GeoQuery(native, queryCriteria), before anything is called on a
\* query: the query the caller goes on with, when the constructor returns one.
ConstructQuery(native, criteria) ==
  /\ getState = "idle"
  /\ calls = 0
  /\ made' = NewGeoQuery("constructor", native, criteria, criteria, WholeQuery)
  /\ qNative' = IF made'.threw = NoError THEN made'.on ELSE qNative
  /\ qCenter' = IF made'.threw = NoError THEN made'.query.center ELSE qCenter
  /\ qRadius' = IF made'.threw = NoError THEN made'.query.radius ELSE qRadius
  /\ qLimit' = IF made'.threw = NoError THEN made'.query.limit ELSE qLimit
  /\ calls' = IF made'.threw = NoError THEN 0 ELSE calls
  /\ UNCHANGED <<store, writes, getState, getMode, reads, result, getError, liveVars,
                 writeVars, codec>>

\* new GeoFirestore(native), new GeoWriteBatch(native) and the like, before
\* anything is called on a query.
Construct(wrapper, native) ==
  /\ getState = "idle"
  /\ calls = 0
  /\ made' = [via |-> "constructor", wrapper |-> wrapper, native |-> native,
              arg |-> NoCriteria, threw |-> constructorError(wrapper, native),
              query |-> NoQuery, on |-> NoQuery]
  /\ UNCHANGED <<store, writes, queryVars, liveVars, writeVars, codec>>

\* Another client sets or deletes a document.
StoreWrite(id, doc) ==
  /\ writes < MaxWrites
  /\ store[id] # doc
  /\ store' = [store EXCEPT ![id] = doc]
  /\ writes' = writes + 1
  /\ UNCHANGED <<qNative, qCenter, qRadius, qLimit, calls, getState, getMode, reads, result,
                 getError, liveVars, writeVars, codec, made>>

\* -------------------------------------------------- live subscription
\* The position of a document in a list of native documents, if it has one.
docIndex(docs, id) ==
  IF \E i \in DOMAIN docs : docs[i].id = id
  THEN CHOOSE i \in DOMAIN docs : docs[i].id = id
  ELSE UndefinedNumber

\* The native QuerySnapshot.docChanges(): what changed from the listener's
\* previous snapshot to this one; in the first snapshot everything is added.
nativeDocChanges(last, docs) ==
  LET gone(i) == docIndex(docs, last[i].id) = UndefinedNumber
      changed(i) == \/ docIndex(last, docs[i].id) = UndefinedNumber
                    \/ last[docIndex(last, docs[i].id)] # docs[i]
      removed == filterIdx(last, gone, 1)
      others  == filterIdx(docs, changed, 1)
  IN  [i \in DOMAIN removed |->
         [type |-> "removed", doc |-> removed[i],
          oldIndex |-> docIndex(last, removed[i].id), newIndex |-> UndefinedNumber]]
      \o
      [i \in DOMAIN others |->
         [type |-> IF docIndex(last, others[i].id) = UndefinedNumber
                   THEN "added" ELSE "modified",
          doc |-> others[i],
          oldIndex |-> docIndex(last, others[i].id),
          newIndex |-> docIndex(docs, others[i].id)]]

\* GeoQuerySnapshot.docChanges(): the native changes, each document wrapped.
docChanges(nativeChanges, center) ==
  [i \in DOMAIN nativeChanges |->
     [doc      |-> generateGeoQueryDocumentSnapshot(nativeChanges[i].doc, center),
      newIndex |-> nativeChanges[i].newIndex,
      oldIndex |-> nativeChanges[i].oldIndex,
      type     |-> nativeChanges[i].type]]

\* The native queries onSnapshot() listens on: this.native, whatever the criteria.
onSnapshotQueries(native, criteria) == <<native>>

\* A listener just attached to a native query.
Attach(queries) ==
  [i \in DOMAIN queries |->
     [query |-> queries[i], status |-> "active", delivered |-> FALSE, last |-> <<>>]]

\* The first callback of onSnapshot(), onNext(new GeoQuerySnapshot(snapshot)),
\* on the calls of onNext so far: the constructor runs first, and onNext is
\* not called when it throws.
onNextSnapshot(sofar, nativeDocs, nativeChanges) ==
  LET snapshot == GeoQuerySnapshot(nativeDocs, NoCriteria)
  IN  IF IsThrow(snapshot) THEN sofar
      ELSE Append(sofar, [snapshot |-> snapshot,
                          changes  |-> docChanges(nativeChanges, UndefinedPoint)])

\* An error callback that swallows the error.
onErrorSilent(given, count) == count

\* The second callback of onSnapshot(): calls onError when one was given.
onErrorHandler(given, count) == IF given THEN count + 1 ELSE count

\* A returned function that releases nothing.
unsubscribeNothing(ls) == ls

\* The function onSnapshot() returns: the native unsubscribe of its listener.
unsubscribe(ls) ==
  [i \in DOMAIN ls |->
     IF ls[i].status = "active" THEN [ls[i] EXCEPT !.status = "released"] ELSE ls[i]]

\* GeoQuery.onSnapshot(onNext, onError)
OnSnapshot(onError) ==
  /\ listeners = <<>>
  /\ listeners' = Attach(onSnapshotQueries(qNative, queryCriteria))
  /\ hasOnError' = onError
  /\ UNCHANGED <<qNative, store, writes, qCenter, qRadius, qLimit, calls, getState, getMode,
                 reads, result, getError, emitted, errors, closed, unsubs,
                 writeVars, codec, made>>

\* The store delivers a snapshot to an active listener, the first one or
\* one after its documents changed, and calls the first callback of
\* onSnapshot() with it. The listener stays attached whatever the callback
\* does.
NativeSnapshot(i) ==
  LET docs == NativeDocs(listeners[i].query, store)
  IN  /\ listeners[i].status = "active"
      /\ ~listeners[i].delivered \/ docs # listeners[i].last
      /\ listeners' = [listeners EXCEPT ![i] = [query     |-> listeners[i].query,
                                                status    |-> "active",
                                                delivered |-> TRUE,
                                                last      |-> docs]]
      /\ emitted' = onNextSnapshot(emitted, docs, nativeDocChanges(listeners[i].last, docs))
      /\ UNCHANGED <<qNative, store, writes, qCenter, qRadius, qLimit, calls, getState, getMode,
                     reads, result, getError, hasOnError, errors, closed, unsubs,
                 writeVars, codec, made>>

\* The listen of an active listener fails: the store ends it and calls the
\* error callback.
NativeError(i) ==
  /\ listeners[i].status = "active"
  /\ listeners' = [listeners EXCEPT ![i] = [query     |-> listeners[i].query,
                                            status    |-> "failed",
                                            delivered |-> listeners[i].delivered,
                                            last      |-> listeners[i].last]]
  /\ errors' = onErrorHandler(hasOnError, errors)
  /\ UNCHANGED <<qNative, store, writes, qCenter, qRadius, qLimit, calls, getState, getMode,
                 reads, result, getError, hasOnError, emitted, closed, unsubs,
                 writeVars, codec, made>>

\* The caller calls the function onSnapshot() returned, once or again.
Unsubscribe ==
  /\ listeners # <<>>
  /\ unsubs < MaxUnsubs
  /\ listeners' = unsubscribe(listeners)
  /\ closed' = TRUE
  /\ unsubs' = unsubs + 1
  /\ UNCHANGED <<qNative, store, writes, qCenter, qRadius, qLimit, calls, getState, getMode,
                 reads, result, getError, hasOnError, emitted, errors,
                 writeVars, codec, made>>

\* ------------------------------------------------------ document codec
\* What a payload holds under a location key.
valueAt(data, key) == IF key = CustomKey THEN data.place ELSE data.coordinates

\* findCoordinates: the point under the custom key, or under `coordinates`.
findCoordinates(data, customKey) ==
  valueAt(data, IF customKey = NoKey THEN DefaultKey ELSE customKey)

\* Whether findCoordinates finds a valid point (it throws when it does not).
hasCoordinates(data, customKey) ==
  /\ findCoordinates(data, customKey) # UndefinedPoint
  /\ validateLocation(findCoordinates(data, customKey))

\* encodeGeoDocument: the stored shape {g, l, d}.
encodeGeoDocument(location, geohash, data) == [g |-> geohash, l |-> location, d |-> data]

\* encodeForWrite of the document codec.
encodeForWrite(data, customKey) ==
  encodeGeoDocument(findCoordinates(data, customKey),
                    encodeGeohash(findCoordinates(data, customKey), MaxPrecision),
                    data)

\* encodeSetDocument: the whole document of a set.
encodeSetDocument(data, options) == encodeForWrite(data, options.customKey)

\* encodeUpdateDocument: the fields given, to go under d, with g and l when
\* the data holds a location and without them when it holds none.
encodeUpdateDocument(data, customKey) ==
  IF findCoordinates(data, customKey) = UndefinedPoint
  THEN encodeGeoDocument(UndefinedPoint, <<>>, data)
  ELSE encodeForWrite(data, customKey)

\* What sanitizeSetOptions passes on to the native set.
sanitizeSetOptions(options) == [merge |-> options.merge]

\* decodeForRead of the document codec: the payload, location at its key.
decodeGeoDocumentData(doc) == doc.d

\* ---------------------------------------------------- writes and reads
\* The native set with merge: fields given replace, fields not given stay.
mergePayload(old, new) ==
  Payload(IF new.coordinates # UndefinedPoint THEN new.coordinates ELSE old.coordinates,
          IF new.place # UndefinedPoint THEN new.place ELSE old.place,
          IF new.count # UndefinedNumber THEN new.count ELSE old.count)

\* One native write: set (merging or not), update or delete of a document.
NativeWrite(op, id, doc, merge, call) ==
  [op |-> op, id |-> id, doc |-> doc, merge |-> merge, call |-> call]

\* A write call as the caller made it: payload, location key, merge.
WriteCall(op, data, customKey, merge) ==
  [op |-> op, data |-> data, customKey |-> customKey, merge |-> merge]

NoWrite == WriteCall("none", NoPayload, NoKey, FALSE)

\* A store that takes an update of a document it does not hold.
acceptsAll(st, w) == TRUE

\* Whether the store accepts a write: an update needs the document.
accepts(st, w) == w.op = "update" => st[w.id] # NoDoc

\* The native update: the fields given replace, the others stay; g and l
\* stay when the update carries none.
updated(old, doc) ==
  [g |-> IF doc.l = UndefinedPoint THEN old.g ELSE doc.g,
   l |-> IF doc.l = UndefinedPoint THEN old.l ELSE doc.l,
   d |-> mergePayload(old.d, doc.d)]

\* A store in which every set merges into the document it finds.
writtenMerged(old, w) ==
  IF w.op = "delete" THEN NoDoc
  ELSE IF old = NoDoc THEN w.doc
  ELSE IF w.op = "update" THEN updated(old, w.doc)
  ELSE [g |-> w.doc.g, l |-> w.doc.l, d |-> mergePayload(old.d, w.doc.d)]

\* The document a write leaves under its id.
written(old, w) ==
  IF w.op = "delete" THEN NoDoc
  ELSE IF old = NoDoc THEN w.doc
  ELSE IF w.op = "update" THEN updated(old, w.doc)
  ELSE IF w.op = "set" /\ w.merge
       THEN [g |-> w.doc.g, l |-> w.doc.l, d |-> mergePayload(old.d, w.doc.d)]
       ELSE w.doc

\* The location key a document has after a write: the key of the write when
\* it carried a location, the key it had when it carried none.
keyAfter(key, w) ==
  IF w.op = "delete" THEN NoKey
  ELSE IF w.doc.l = UndefinedPoint THEN key
  ELSE w.call.customKey

\* A sequence of writes applied in order, all or none: the store, the
\* record of calls and the location keys after, and whether every write was
\* accepted.
RECURSIVE applyWrites(_, _, _, _)
applyWrites(st, calls_, keys_, ws) ==
  IF ws = <<>> THEN [store |-> st, wrote |-> calls_, locatedAt |-> keys_, ok |-> TRUE]
  ELSE LET w == Head(ws)
       IN  IF ~accepts(st, w)
           THEN [store |-> st, wrote |-> calls_, locatedAt |-> keys_, ok |-> FALSE]
           ELSE applyWrites([st EXCEPT ![w.id] = written(st[w.id], w)],
                            [calls_ EXCEPT ![w.id] = IF w.op = "delete" THEN NoWrite ELSE w.call],
                            [keys_ EXCEPT ![w.id] = keyAfter(keys_[w.id], w)],
                            Tail(ws))

\* What came of the last write call or of the answer of the store to one:
\* who made it, how it stands (staged in a batch or transaction, pending
\* with the store, committed or rejected by it, or the error thrown), the
\* native writes it made or staged, the references the caller gave for
\* them, the store it found, and the call when it threw.
Outcome(by, status, ws, given, before, call) ==
  [by |-> by, status |-> status, writes |-> ws, given |-> given, before |-> before,
   call |-> call]

NoOutcome == Outcome("none", "none", <<>>, <<>>, [id \in DocIds |-> NoDoc], NoWrite)

\* A commit that applies the writes one by one up to the first the store
\* does not accept.
CommitEach(by, ws, given) ==
  LET after == applyWrites(store, wrote, locatedAt, ws)
  IN  /\ store' = after.store
      /\ wrote' = after.wrote
      /\ locatedAt' = after.locatedAt
      /\ outcome' = Outcome(by, IF after.ok THEN "committed" ELSE "rejected", ws, given, store, NoWrite)

\* The store takes a sequence of writes atomically, or rejects them all.
Commit(by, ws, given) ==
  LET after == applyWrites(store, wrote, locatedAt, ws)
  IN  /\ store' = IF after.ok THEN after.store ELSE store
      /\ wrote' = IF after.ok THEN after.wrote ELSE wrote
      /\ locatedAt' = IF after.ok THEN after.locatedAt ELSE locatedAt
      /\ outcome' = Outcome(by, IF after.ok THEN "committed" ELSE "rejected", ws, given, store, NoWrite)

\* A native write called: its promise is pending and the store has not
\* answered.
Pending(by, ws, given) ==
  /\ Len(inflight) < MaxPending
  /\ inflight' = Append(inflight, [by |-> by, writes |-> ws, given |-> given])
  /\ outcome' = Outcome(by, "pending", ws, given, store, NoWrite)
  /\ UNCHANGED <<store, wrote, locatedAt>>

\* A write call that throws while it encodes: the native store is not called.
Throw(by, error, call) ==
  /\ outcome' = Outcome(by, error, <<>>, <<>>, store, call)
  /\ UNCHANGED <<store, wrote, locatedAt, inflight>>

\* The native DocumentReference of a document and the GeoDocumentReference
\* around it.
DocumentReference(id) == [geo |-> FALSE, id |-> id]
GeoDocumentReference(id) == [geo |-> TRUE, id |-> id, native |-> DocumentReference(id)]
References == {DocumentReference(id) : id \in DocIds} \cup {GeoDocumentReference(id) : id \in DocIds}

\* A batch or transaction that passes on the reference it was given.
refGiven(documentRef) == documentRef

\* The reference a batch or transaction hands to the native one.
nativeRef(documentRef) == IF documentRef.geo THEN documentRef.native ELSE documentRef

\* Object.prototype.toString.call(data) of a payload.
payloadToString(data) == IF data = ArrayPayload THEN "[object Array]" ELSE "[object Object]"

\* A check of the location that takes any point for a location.
encodeErrorAnyPoint(data, customKey) ==
  IF findCoordinates(data, customKey) # UndefinedPoint THEN NoError ELSE "InvalidArgument"

\* What encoding a payload for a write throws.
encodeError(data, customKey) ==
  IF hasCoordinates(data, customKey) THEN NoError ELSE "InvalidArgument"

\* What encoding the data of an update throws: a location it holds has to be
\* valid, and it need not hold one.
updateError(data, customKey) ==
  IF findCoordinates(data, customKey) = UndefinedPoint THEN NoError
  ELSE encodeError(data, customKey)

\* What GeoCollectionReference.add throws before it calls the native add().
addError(data, customKey) ==
  IF payloadToString(data) # "[object Object]" THEN "Error"
  ELSE encodeError(data, customKey)

\* What GeoCollectionReference.add passes to the native add().
collectionAdd(data, customKey) ==
  encodeGeoDocument(findCoordinates(data, customKey),
                    encodeGeohash(findCoordinates(data, customKey), MaxPrecision),
                    data)

\* The native write of set(data, options) of a reference, batch or transaction.
wrapperSet(id, data, options) ==
  NativeWrite("set", id, encodeSetDocument(data, options),
              sanitizeSetOptions(options).merge,
              WriteCall("set", data, options.customKey, options.merge))

\* The native write of update(data, customKey) of a reference, batch or transaction.
wrapperUpdate(id, data, customKey) ==
  NativeWrite("update", id, encodeUpdateDocument(data, customKey), FALSE,
              WriteCall("update", data, customKey, FALSE))

\* The native write of delete().
wrapperDelete(id) == NativeWrite("delete", id, NoDoc, FALSE, NoWrite)

\* A data() that hands out the stored document as it is.
snapshotDataRaw(doc) == doc

\* GeoDocumentSnapshot.data(): the decoded payload of a document that exists.
snapshotData(doc) == IF doc # NoDoc THEN decodeGeoDocumentData(doc) ELSE NoPayload

\* The documents a pending add() will create: their ids are not known to
\* any caller before its promise resolves.
beingAdded ==
  {id \in DocIds : \E k \in DOMAIN inflight :
                     inflight[k].by = "collection" /\ inflight[k].writes[1].id = id}

\* An id the store can give a new document: no document has it, and no write
\* called or held names it.
isFresh(id) ==
  /\ store[id] = NoDoc
  /\ \A k \in DOMAIN inflight : \A i \in DOMAIN inflight[k].writes : inflight[k].writes[i].id # id
  /\ \A i \in DOMAIN staged : staged[i].write.id # id

\* GeoCollectionReference.add(data, customKey): throws, or calls the native
\* add() and returns its promise, pending.
Add(id, data, customKey) ==
  /\ geoWrites < MaxGeoWrites
  /\ isFresh(id)
  /\ geoWrites' = geoWrites + 1
  /\ IF addError(data, customKey) = NoError
     THEN Pending("collection", <<NativeWrite("set", id, collectionAdd(data, customKey), FALSE,
                                              WriteCall("add", data, customKey, FALSE))>>,
                  <<DocumentReference(id)>>)
     ELSE Throw("collection", addError(data, customKey),
                WriteCall("add", data, customKey, FALSE))
  /\ UNCHANGED <<writes, queryVars, liveVars, staged, codec, made>>

\* GeoDocumentReference.set(data, options): throws, or calls the native set()
\* and returns its promise, pending.
Set(id, data, options) ==
  /\ geoWrites < MaxGeoWrites
  /\ id \notin beingAdded
  /\ geoWrites' = geoWrites + 1
  /\ IF encodeError(data, options.customKey) = NoError
     THEN Pending("reference", <<wrapperSet(id, data, options)>>, <<GeoDocumentReference(id)>>)
     ELSE Throw("reference", encodeError(data, options.customKey),
                WriteCall("set", data, options.customKey, options.merge))
  /\ UNCHANGED <<writes, queryVars, liveVars, staged, codec, made>>

\* GeoDocumentReference.update(data, customKey): throws, or calls the native
\* update() and returns its promise, pending.
Update(id, data, customKey) ==
  /\ geoWrites < MaxGeoWrites
  /\ id \notin beingAdded
  /\ geoWrites' = geoWrites + 1
  /\ IF updateError(data, customKey) = NoError
     THEN Pending("reference", <<wrapperUpdate(id, data, customKey)>>, <<GeoDocumentReference(id)>>)
     ELSE Throw("reference", updateError(data, customKey),
                WriteCall("update", data, customKey, FALSE))
  /\ UNCHANGED <<writes, queryVars, liveVars, staged, codec, made>>

\* GeoDocumentReference.delete(): calls the native delete() and returns its
\* promise, pending.
Delete(id) ==
  /\ geoWrites < MaxGeoWrites
  /\ id \notin beingAdded
  /\ Pending("reference", <<wrapperDelete(id)>>, <<GeoDocumentReference(id)>>)
  /\ geoWrites' = geoWrites + 1
  /\ UNCHANGED <<writes, queryVars, liveVars, staged, codec, made>>

\* A GeoWriteBatch or GeoTransaction holds a write for the reference it
\* hands to the native batch or transaction; one of them is open at a time.
Stage(by, documentRef, w) ==
  /\ staged' = Append(staged, [by |-> by, write |-> w, ref |-> nativeRef(documentRef),
                               given |-> documentRef])
  /\ outcome' = Outcome(by, "staged", <<w>>, <<documentRef>>, store, NoWrite)
  /\ UNCHANGED <<store, wrote, locatedAt, inflight>>

\* GeoWriteBatch.set / GeoTransaction.set
StageSet(by, documentRef, data, options) ==
  /\ geoWrites < MaxGeoWrites
  /\ \A i \in DOMAIN staged : staged[i].by = by
  /\ nativeRef(documentRef).id \notin beingAdded
  /\ geoWrites' = geoWrites + 1
  /\ IF encodeError(data, options.customKey) = NoError
     THEN Stage(by, documentRef, wrapperSet(nativeRef(documentRef).id, data, options))
     ELSE (/\ Throw(by, encodeError(data, options.customKey),
                     WriteCall("set", data, options.customKey, options.merge))
           /\ staged' = staged)
  /\ UNCHANGED <<writes, queryVars, liveVars, codec, made>>

\* GeoWriteBatch.update / GeoTransaction.update
StageUpdate(by, documentRef, data, customKey) ==
  /\ geoWrites < MaxGeoWrites
  /\ \A i \in DOMAIN staged : staged[i].by = by
  /\ nativeRef(documentRef).id \notin beingAdded
  /\ geoWrites' = geoWrites + 1
  /\ IF updateError(data, customKey) = NoError
     THEN Stage(by, documentRef, wrapperUpdate(nativeRef(documentRef).id, data, customKey))
     ELSE (/\ Throw(by, updateError(data, customKey),
                     WriteCall("update", data, customKey, FALSE))
           /\ staged' = staged)
  /\ UNCHANGED <<writes, queryVars, liveVars, codec, made>>

\* GeoWriteBatch.delete / GeoTransaction.delete
StageDelete(by, documentRef) ==
  /\ geoWrites < MaxGeoWrites
  /\ \A i \in DOMAIN staged : staged[i].by = by
  /\ nativeRef(documentRef).id \notin beingAdded
  /\ geoWrites' = geoWrites + 1
  /\ Stage(by, documentRef, wrapperDelete(nativeRef(documentRef).id))
  /\ UNCHANGED <<writes, queryVars, liveVars, codec, made>>

\* GeoWriteBatch.commit(), or the end of the transaction's update function:
\* calls the native commit with the writes held, none included, and returns
\* its promise, pending.
CommitStaged(by) ==
  /\ \A i \in DOMAIN staged : staged[i].by = by
  /\ Pending(by, [i \in DOMAIN staged |-> staged[i].write],
             [i \in DOMAIN staged |-> staged[i].given])
  /\ staged' = <<>>
  /\ UNCHANGED <<writes, queryVars, liveVars, geoWrites, codec, made>>

\* The store answers a native write that is pending: it takes its writes
\* atomically, or rejects them all, and the promise of the call settles.
WriteSettle(i) ==
  /\ Commit(inflight[i].by, inflight[i].writes, inflight[i].given)
  /\ inflight' = SubSeq(inflight, 1, i - 1) \o SubSeq(inflight, i + 1, Len(inflight))
  /\ UNCHANGED <<writes, queryVars, liveVars, staged, geoWrites, codec, made>>

\* ------------------------------------------------------- codec in use
\* No use of the codec.
NoCodec == [point |-> <<>>, precision |-> 0, hash |-> <<>>, box |-> <<>>]

\* encode(point, precision)
Encode ==
  /\ codec.precision > 0
  /\ codec.hash = <<>>
  /\ validateLocation(codec.point)
  /\ codec' = [codec EXCEPT !.hash = encodeGeohash(codec.point, codec.precision)]
  /\ UNCHANGED <<store, writes, queryVars, liveVars, writeVars, made>>

\* decodeBoundingBox(geohash)
DecodeBoundingBox ==
  /\ codec.hash # <<>>
  /\ codec.box = <<>>
  /\ codec' = [codec EXCEPT !.box = decodeBoundingBox(codec.hash)]
  /\ UNCHANGED <<store, writes, queryVars, liveVars, writeVars, made>>

\* ----------------------------------------------------- specifications
StoredDocs == {StoredAt(pt) : pt \in DocPlaces} \cup {NoDoc}

InitQuery(criteria) ==
  /\ qNative = WholeQuery
  /\ qCenter = GeoQueryNew(criteria).center
  /\ qRadius = GeoQueryNew(criteria).radius
  /\ qLimit = GeoQueryNew(criteria).limit
  /\ calls = 0
  /\ getState = "idle"
  /\ getMode = "plain"
  /\ reads = <<>>
  /\ result = <<>>
  /\ getError = NoRejection
  /\ listeners = <<>>
  /\ hasOnError = FALSE
  /\ emitted = <<>>
  /\ errors = 0
  /\ closed = FALSE
  /\ unsubs = 0
  /\ staged = <<>>
  /\ inflight = <<>>
  /\ wrote = [id \in DocIds |-> NoWrite]
  /\ locatedAt = [id \in DocIds |-> NoKey]
  /\ geoWrites = 0
  /\ outcome = NoOutcome
  /\ made = NoMade

\* One-shot reads: a query over a store other clients write to.
Init ==
  /\ store \in [DocIds -> StoredDocs]
  /\ writes = 0
  /\ codec = NoCodec
  /\ \E criteria \in InitCriteria : InitQuery(criteria)

Next ==
  \/ Get
  \/ \E i \in DOMAIN reads : ReadResolve(i)
  \/ \E i \in DOMAIN reads : ReadReject(i)
  \/ \E n \in QueryLimits : Limit(n)
  \/ \E c \in NearCriteria : Near(c)
  \/ \E id \in DocIds, doc \in StoredDocs : StoreWrite(id, doc)

Spec == Init /\ [][Next]_vars

\* The decomposition alone: get() on a geo query with any center of the
\* lattice, over an empty store.
CoverInit ==
  /\ store = [id \in DocIds |-> NoDoc]
  /\ writes = 0
  /\ codec = NoCodec
  /\ \E c \in Points, r \in CoverRadii : InitQuery(Criteria(c, r, UndefinedNumber))

CoverNext == Get

SpecCover == CoverInit /\ [][CoverNext]_vars

\* Live listening: one onSnapshot() on a query over a store other clients
\* write to.
LiveNext ==
  \/ \E onError \in BOOLEAN : OnSnapshot(onError)
  \/ \E i \in DOMAIN listeners : NativeSnapshot(i)
  \/ \E i \in DOMAIN listeners : NativeError(i)
  \/ Unsubscribe
  \/ \E id \in DocIds, doc \in StoredDocs : StoreWrite(id, doc)

SpecLive == Init /\ [][LiveNext]_vars

\* Writing: Geo wrappers writing to a collection that starts empty.
WriteInit ==
  /\ store = [id \in DocIds |-> NoDoc]
  /\ writes = 0
  /\ codec = NoCodec
  /\ InitQuery(NoCriteria)

WriteNext ==
  \/ \E id \in DocIds, data \in AddPayloads, k \in WriteKeys : Add(id, data, k)
  \/ \E id \in DocIds, data \in WritePayloads, o \in WriteOptions : Set(id, data, o)
  \/ \E id \in DocIds, data \in WritePayloads, k \in WriteKeys : Update(id, data, k)
  \/ \E id \in DocIds : Delete(id)
  \/ \E by \in StagingWrappers, ref \in References, data \in WritePayloads, o \in WriteOptions :
       StageSet(by, ref, data, o)
  \/ \E by \in StagingWrappers, ref \in References, data \in WritePayloads, k \in WriteKeys :
       StageUpdate(by, ref, data, k)
  \/ \E by \in StagingWrappers, ref \in References : StageDelete(by, ref)
  \/ \E by \in StagingWrappers : CommitStaged(by)
  \/ \E i \in DOMAIN inflight : WriteSettle(i)

SpecWrite == WriteInit /\ [][WriteNext]_vars

\* The codec alone: a point of the grid encoded at a precision, the hash
\* decoded to its box.
CodecInit ==
  /\ store = [id \in DocIds |-> NoDoc]
  /\ writes = 0
  /\ InitQuery(NoCriteria)
  /\ \E pt \in GridPoints, p \in 1..MaxPrecision :
       codec = [point |-> pt, precision |-> p, hash |-> <<>>, box |-> <<>>]

CodecNext == Encode \/ DecodeBoundingBox

SpecCodec == CodecInit /\ [][CodecNext]_vars

\* Building queries: a collection with one document at the center the
\* callers use, which holds a count, and the others one cell north of it,
\* inside their radius, which hold none; constructors, near(), limit() and
\* where() with any argument, then get().
StoreOfTwo ==
  [id \in DocIds |-> IF id = 1 THEN [StoredAt(Home) EXCEPT !.d.count = 7]
                     ELSE StoredAt(Place(19, 2))]

BuildInit ==
  /\ store = StoreOfTwo
  /\ writes = 0
  /\ codec = NoCodec
  /\ InitQuery(NoCriteria)

BuildNext ==
  \/ \E native \in Natives, c \in AnyCriteria : ConstructQuery(native, c)
  \/ \E w \in Wrappers, native \in Natives : Construct(w, native)
  \/ \E c \in AnyCriteria : Near(c)
  \/ \E n \in AnyLimits : Limit(n)
  \/ \E fieldPath \in FieldPaths, value \in FieldValues : Where(fieldPath, value)
  \/ Adopt
  \/ Get
  \/ \E i \in DOMAIN reads : ReadResolve(i)

SpecBuild == BuildInit /\ [][BuildNext]_vars

\* ============================================================= claims
\* The snapshots get() delivered for a geo query.
GeoResults == {i \in DOMAIN result : result[i].criteria.center # UndefinedPoint}

\* A geo get() has all its reads back.
GeoReadsResolved ==
  /\ getMode = "geo"
  /\ reads # <<>>
  /\ \A i \in DOMAIN reads : reads[i].status = "resolved"

\* get() has delivered one snapshot, for a geo query.
GeoResultDelivered ==
  /\ getState = "fulfilled"
  /\ Len(result) = 1
  /\ GeoResults = {1}

\* The documents the reads returned that the join has to choose from: one per
\* identity, no farther than the radius.
Candidates(criteria) ==
  Range(withinRadius(dedupe(flatten(Values(reads))), criteria.center, criteria.radius))

\* r comes before c in the order of distance, ties by id.
Nearer(center, r, c) ==
  \/ calculateDistance(center, r.l) < calculateDistance(center, c.l)
  \/ /\ calculateDistance(center, r.l) = calculateDistance(center, c.l)
     /\ r.id < c.id

\* C1: when one of the range reads of a geo get() fails, get() is rejected
\* with the error of a failed read and no snapshot is delivered, however the
\* other reads complete.
C1_FailedReadFailsGet ==
  (getMode = "geo" /\ \E i \in DOMAIN reads : reads[i].status = "rejected")
    => /\ getState = "rejected"
       /\ \E i \in DOMAIN reads : getError = ReadError(i) /\ reads[i].status = "rejected"
       /\ result = <<>>

\* A geo get() failed, and afterwards every other read completed, one of
\* them with documents.
C1_Witness ==
  /\ getMode = "geo"
  /\ getState = "rejected"
  /\ Len(reads) >= 2
  /\ \A i \in DOMAIN reads : reads[i].status # "pending"
  /\ \E i \in DOMAIN reads : reads[i].status = "resolved" /\ reads[i].docs # <<>>

\* C2: a geo get() whose range reads have all resolved delivers a result,
\* and every record of a one-shot geo result carries the distance recomputed
\* from the center to its stored location, and that distance is at most the
\* radius: a document read from a covering range that lies farther away is
\* not in it.
C2_ResultWithinRadius ==
  /\ GeoReadsResolved => GeoResultDelivered
  /\ \A k \in GeoResults :
       \A i \in DOMAIN result[k].docs :
         /\ result[k].docs[i].distance
              = calculateDistance(result[k].criteria.center, result[k].docs[i].l)
         /\ result[k].docs[i].distance <= result[k].criteria.radius

\* C3: a geo get() whose range reads have all resolved delivers a result,
\* and the records of a one-shot geo result are in ascending order of
\* distance, records equally far in ascending order of id.
C3_ResultSorted ==
  /\ GeoReadsResolved => GeoResultDelivered
  /\ \A k \in GeoResults :
       \A i, j \in DOMAIN result[k].docs :
         i < j => \/ result[k].docs[i].distance < result[k].docs[j].distance
                  \/ /\ result[k].docs[i].distance = result[k].docs[j].distance
                     /\ result[k].docs[i].id < result[k].docs[j].id

\* C4: no range read of a geo get() carries the limit; once the reads have
\* all resolved a result is delivered, it has at most limit records, and
\* they are the nearest of the documents within the radius that the reads
\* returned.
C4_LimitAfterFilter ==
  /\ getMode = "geo" => \A i \in DOMAIN reads : reads[i].query.limit = UndefinedNumber
  /\ GeoReadsResolved => GeoResultDelivered
  /\ \A k \in GeoResults :
       LET crit == result[k].criteria
           cand == Candidates(crit)
           out  == Range(result[k].docs)
           ids  == {r.id : r \in out}
       IN  /\ crit.limit # UndefinedNumber => Len(result[k].docs) <= crit.limit
           /\ Len(result[k].docs)
                = (IF crit.limit = UndefinedNumber THEN Cardinality(cand)
                   ELSE Min(crit.limit, Cardinality(cand)))
           /\ \A r \in out : \E c \in cand : c.id = r.id /\ c.l = r.l
           /\ \A c \in cand : c.id \notin ids => \A r \in out : Nearer(crit.center, r, c)

\* C5: a geo get() whose range reads have all resolved delivers a result,
\* and no document identity occurs twice in a one-shot geo result, also when
\* two of the range reads returned the document.
C5_ResultDeduplicated ==
  /\ GeoReadsResolved => GeoResultDelivered
  /\ \A k \in GeoResults :
       \A i, j \in DOMAIN result[k].docs :
         i # j => result[k].docs[i].id # result[k].docs[j].id

\* C6: once get() has issued its range reads, every point no farther from
\* the center than the radius has its full-precision geohash inside the range
\* of one of the reads.
C6_NoFalseNegatives ==
  (getState = "pending" /\ getMode = "geo")
    => \A pt \in Points :
         calculateDistance(qCenter, pt) <= qRadius
           => \E i \in DOMAIN reads : Matches(reads[i].query, StoredAt(pt))

\* The ranges a live geo query has to listen on.
LiveRanges == generateQuery(qNative, qCenter, qRadius, qLimit)

\* The merge, by the contract of the one-shot join, of what the ranges hold
\* in store st.
LiveMerge(st) ==
  GeoJoinerGet([i \in DOMAIN LiveRanges |-> NativeDocs(LiveRanges[i], st)], queryCriteria)

\* The documents of a list, without their distances.
Located(docs) == [i \in DOMAIN docs |-> <<docs[i].id, docs[i].l>>]

\* Every covering range of the live geo query has a listener in ls that
\* took its first snapshot.
AllRangesDelivered(ls) ==
  \A r \in DOMAIN LiveRanges :
    \E i \in DOMAIN ls : ls[i].query = LiveRanges[r] /\ ls[i].delivered

\* C7: the first call of the listener of a live geo query is made only once
\* every covering range has a listener that took its first snapshot; and
\* when the last of the listeners attached takes its first snapshot, exactly
\* one snapshot has been passed to the listener, whose change list is one
\* 'added' per record of the merge.
C7_FirstSnapshotAfterAllRanges ==
  [][IsGeo
       => /\ (emitted = <<>> /\ emitted' # <<>>) => AllRangesDelivered(listeners')
          /\ (/\ \E i \in DOMAIN listeners : ~listeners[i].delivered
              /\ \A i \in DOMAIN listeners' : listeners'[i].delivered)
               => /\ AllRangesDelivered(listeners')
                  /\ Len(emitted') = 1
                  /\ {<<c.doc.id, c.type>> : c \in Range(emitted'[1].changes)}
                       = {<<d.id, "added">> : d \in Range(LiveMerge(store'))}]_vars

\* C8: each time a listener of a live geo query takes a snapshot from the
\* store, once all have taken their first, the listener of the caller is
\* passed a snapshot, and every snapshot passed to it holds the documents of
\* the deduplicated, distance-filtered, distance-sorted, limit-truncated
\* merge of what the covering ranges hold when it is emitted.
C8_LiveSnapshotIsMerge ==
  [][IsGeo
       => /\ (/\ \A i \in DOMAIN listeners' : listeners'[i].delivered
              /\ \E i \in DOMAIN listeners :
                   /\ listeners'[i] # listeners[i]
                   /\ listeners'[i].status = "active"
                   /\ listeners'[i].delivered)
               => Len(emitted') = Len(emitted) + 1
          /\ emitted' # emitted
               => Located(emitted'[Len(emitted')].snapshot.docs)
                    = Located(LiveMerge(store'))]_vars

\* C9: when a listener of a live query fails, onError has been called exactly
\* once (when the caller gave one), no listener of the subscription is still
\* active, and from then on neither the listener nor onError is called again.
C9_ErrorOnceThenSilence ==
  [][(\E i \in DOMAIN listeners' : listeners'[i].status = "failed")
       => /\ errors' = (IF hasOnError' THEN 1 ELSE 0)
          /\ \A i \in DOMAIN listeners' : listeners'[i].status # "active"
          /\ (\E i \in DOMAIN listeners : listeners[i].status = "failed")
               => (emitted' = emitted /\ errors' = errors)]_vars

\* A subscription with an onError whose listener failed after it had taken
\* a snapshot from the store, and the store changed afterwards.
C9_Witness ==
  /\ hasOnError
  /\ errors = 1
  /\ \E i \in DOMAIN listeners :
       /\ listeners[i].status = "failed"
       /\ listeners[i].delivered
       /\ NativeDocs(listeners[i].query, store) # listeners[i].last

\* C10: once the function onSnapshot() returned has been called, no native
\* listener of the subscription is active.
C10_UnsubscribeReleasesAll ==
  closed => \A i \in DOMAIN listeners : listeners[i].status # "active"

\* An unsubscribed subscription whose listener had delivered a snapshot and
\* was released, with a change of the store it no longer hears of.
C10_Witness ==
  /\ closed
  /\ \E i \in DOMAIN listeners :
       /\ listeners[i].status = "released"
       /\ listeners[i].delivered
       /\ NativeDocs(listeners[i].query, store) # listeners[i].last

\* C11: once the function onSnapshot() returned has been called, calling it
\* again changes no listener, and neither the listener nor onError is called
\* any more, whatever the store delivers or fails with afterwards.
C11_UnsubscribeIdempotentFinal ==
  [][closed => /\ listeners' = listeners
               /\ emitted' = emitted
               /\ errors' = errors
               /\ closed']_vars

\* The returned function was called twice on a subscription whose first
\* snapshot, of a collection with documents, was still to be delivered.
C11_Witness ==
  /\ unsubs = 2
  /\ emitted = <<>>
  /\ errors = 0
  /\ \E i \in DOMAIN listeners :
       /\ listeners[i].status = "released"
       /\ ~listeners[i].delivered
       /\ NativeDocs(listeners[i].query, store) # <<>>

\* The record set a change list leaves of a record set: removals taken
\* out, additions and modifications put in, in the order of the list.
RECURSIVE ApplyChanges(_, _)
ApplyChanges(records, changes) ==
  IF changes = <<>> THEN records
  ELSE LET c    == Head(changes)
           rest == {r \in records : r.id # c.doc.id}
       IN  ApplyChanges(IF c.type = "removed" THEN rest ELSE rest \cup {c.doc},
                        Tail(changes))

\* C12: a live query whose listener has taken a snapshot from the store has
\* passed a snapshot to the listener of the caller, and the change list of
\* every snapshot passed, applied to the records of the snapshot passed
\* before it (to none for the first), gives exactly the records of the
\* snapshot.
C12_ChangesAreDiffOfPrevious ==
  /\ (\E i \in DOMAIN listeners : listeners[i].delivered) => emitted # <<>>
  /\ \A k \in DOMAIN emitted :
       ApplyChanges(IF k = 1 THEN {} ELSE Range(emitted[k - 1].snapshot.docs),
                    emitted[k].changes)
         = Range(emitted[k].snapshot.docs)

\* C13: every document the Geo wrappers stored has g equal to the
\* full-precision geohash of its l, and l equal to the valid location its
\* payload d holds under its location key, the key of the last write that
\* held a location.
C13_StoredGeohashMatchesLocation ==
  \A id \in DocIds :
    store[id] # NoDoc
      => /\ store[id].l # UndefinedPoint
         /\ validateLocation(store[id].l)
         /\ store[id].g = encodeGeohash(store[id].l, MaxPrecision)
         /\ store[id].l = findCoordinates(store[id].d, locatedAt[id])

\* C14: a document last written whole (by add, or by set without merge)
\* reads back, through data(), as exactly the payload of that write: no g,
\* no l, the location under the key it was written with.
C14_PayloadRoundTrip ==
  \A id \in DocIds :
    (wrote[id].op \in {"add", "set"} /\ ~wrote[id].merge)
      => snapshotData(store[id]) = wrote[id].data

\* A document set, after another write, with a payload that has its
\* location under the custom key and another field beside it.
C14_Witness ==
  \E id \in DocIds :
    /\ wrote[id].op = "set"
    /\ ~wrote[id].merge
    /\ wrote[id].customKey = CustomKey
    /\ wrote[id].data.coordinates = UndefinedPoint
    /\ wrote[id].data.count = 7
    /\ snapshotData(store[id]).place = Place(15, 2)
    /\ staged = <<>>
    /\ geoWrites = MaxGeoWrites

\* C15: the bounding box decoded from the geohash of a valid point, at any
\* supported precision, contains the point; the geohash has one character
\* per unit of precision.
C15_GeohashRoundTrip ==
  codec.box # <<>>
    => /\ Len(codec.hash) = codec.precision
       /\ codec.box[1] <= codec.point[1] /\ codec.point[1] <= codec.box[2]
       /\ codec.box[3] <= codec.point[2] /\ codec.point[2] <= codec.box[4]

\* The north pole on the antimeridian, encoded at the lowest precision and
\* decoded: a point on the bounds of both ranges.
C15_Witness ==
  /\ codec.box # <<>>
  /\ codec.point = <<HalfTurn \div 2, -HalfTurn>>
  /\ codec.precision = 1

\* C16: get() on a query without center and radius issues one read, of the
\* native query itself with the limit of the query when it has one, and once
\* that read has resolved it resolves with the documents of the read as they
\* came: none dropped, none moved, no distance.
C16_PlainQueryReadsNative ==
  (getMode = "plain" /\ getState # "idle")
    => /\ Len(reads) = 1
       /\ reads[1].query.kind = "all"
       /\ calls = 0 => reads[1].query.limit = qLimit
       /\ reads[1].status = "resolved"
            => /\ getState = "fulfilled"
               /\ Len(result) = 1
               /\ Located(result[1].docs) = Located(reads[1].docs)
               /\ \A i \in DOMAIN result[1].docs :
                    result[1].docs[i].distance = UndefinedNumber

\* C17: center and radius go together. A GeoQuery that a constructor, near(),
\* limit() or where() returns holds both or neither, so criteria with one of
\* them make no geo query; and get() reads ranges exactly when the query it
\* is called on holds a center and a radius, and reads the native query
\* itself otherwise.
C17_GeoIffCenterAndRadius ==
  /\ [](made.wrapper = "GeoQuery" /\ made.threw = NoError
          => (made.query.center = UndefinedPoint <=> made.query.radius = UndefinedNumber))
  /\ [][(getState = "idle" /\ getState' = "pending")
          => /\ Len(reads') >= 1
             /\ (qCenter # UndefinedPoint /\ qRadius # UndefinedNumber)
                  <=> (\A i \in DOMAIN reads' : reads'[i].query.kind = "range")
             /\ (qCenter = UndefinedPoint \/ qRadius = UndefinedNumber)
                  <=> (\A i \in DOMAIN reads' : reads'[i].query.kind = "all")]_vars

\* near() with a center alone was called on a query without criteria: the
\* query holds a center and no radius, the query near() returned holds
\* neither, and get() read the native query, which returned both documents.
C17_Witness ==
  /\ qCenter # UndefinedPoint
  /\ qRadius = UndefinedNumber
  /\ made.via = "near"
  /\ made.threw = NoError
  /\ made.query.center = UndefinedPoint
  /\ getMode = "plain"
  /\ Len(reads) = 1
  /\ reads[1].status = "resolved"
  /\ Len(reads[1].docs) = 2

\* C18: criteria with a center and a radius, of which the radius is zero or
\* negative or the center is no location, make the GeoQuery constructor and
\* near() throw: no query comes of them.
C18_InvalidCriteriaThrow ==
  (/\ made.via \in {"constructor", "near"}
   /\ made.wrapper = "GeoQuery"
   /\ made.native = ValidNative
   /\ made.arg.center # UndefinedPoint
   /\ made.arg.radius # UndefinedNumber
   /\ (made.arg.radius <= 0 \/ ~validateLocation(made.arg.center)))
    => (made.threw # NoError /\ made.query = NoQuery)

\* C19: limit() and near() return a new GeoQuery and leave the instance they
\* are called on as it was: its center, radius and limit are the same after
\* the call as before.
C19_LimitNearLeaveReceiver ==
  [][(calls' = calls + 1 /\ made'.via \in {"limit", "near"})
       => /\ made'.wrapper = "GeoQuery"
          /\ made'.threw = NoError => made'.query # NoQuery
          /\ qCenter' = qCenter
          /\ qRadius' = qRadius
          /\ qLimit' = qLimit]_vars

\* C20: the constructor of every Geo wrapper throws for a native that is no
\* object of its own (null, undefined, a boolean, a number, a string, an
\* array, a function) and constructs for an instance of the Firestore class
\* it wraps; no wrapper comes of a native of the first kind.
C20_ConstructorsRejectInvalidNative ==
  made.via = "constructor"
    => /\ made.native \in InvalidNatives => (made.threw # NoError /\ made.query = NoQuery)
       /\ (made.native = ValidNative /\ validateQueryCriteria(made.arg))
            => made.threw = NoError
       /\ made.threw = NoError => made.native \notin InvalidNatives

\* new GeoTransaction([]) threw.
C20_Witness ==
  /\ made.via = "constructor"
  /\ made.wrapper = "GeoTransaction"
  /\ made.native = "array"
  /\ made.threw = "Error"

\* C21: an update of a document that does not exist fails. A transaction (or
\* a reference) that updates a document the store did not hold, and did not
\* set before the update, is rejected, and the store is as it was: the
\* document still does not exist.
C21_UpdateOfMissingDocumentFails ==
  \A i \in DOMAIN outcome.writes :
    (/\ outcome.by \in {"transaction", "reference"}
     /\ outcome.status \in {"committed", "rejected"}
     /\ outcome.writes[i].op = "update"
     /\ outcome.before[outcome.writes[i].id] = NoDoc
     /\ \A j \in 1..(i - 1) : outcome.writes[j].id # outcome.writes[i].id)
      => /\ outcome.status = "rejected"
         /\ store = outcome.before
         /\ store[outcome.writes[i].id] = NoDoc

\* A transaction set one document and updated another that did not exist:
\* it was rejected and neither document is in the store.
C21_Witness ==
  /\ outcome.by = "transaction"
  /\ outcome.status = "rejected"
  /\ Len(outcome.writes) = 2
  /\ outcome.writes[1].op = "set"
  /\ outcome.writes[2].op = "update"
  /\ outcome.writes[1].id # outcome.writes[2].id
  /\ store[outcome.writes[1].id] = NoDoc
  /\ store[outcome.writes[2].id] = NoDoc

\* C22: GeoTransaction.set creates or replaces. After a transaction has
\* committed, a document whose last write in it was a set without merge
\* exists, and its data is the payload passed to that set: no field of an
\* earlier document is left.
C22_TransactionSetReplaces ==
  (outcome.by = "transaction" /\ outcome.status = "committed")
    => \A i \in DOMAIN outcome.writes :
         (/\ outcome.writes[i].op = "set"
          /\ ~outcome.writes[i].merge
          /\ \A j \in (i + 1)..Len(outcome.writes) :
               outcome.writes[j].id # outcome.writes[i].id)
           => /\ store[outcome.writes[i].id] # NoDoc
              /\ snapshotData(store[outcome.writes[i].id]) = outcome.writes[i].call.data

\* A transaction set a payload without count on a document that held a
\* count: the document exists and holds none.
C22_Witness ==
  /\ outcome.by = "transaction"
  /\ outcome.status = "committed"
  /\ Len(outcome.writes) = 1
  /\ outcome.writes[1].op = "set"
  /\ ~outcome.writes[1].merge
  /\ outcome.before[outcome.writes[1].id] # NoDoc
  /\ outcome.before[outcome.writes[1].id].d.count = 7
  /\ store[outcome.writes[1].id] # NoDoc
  /\ store[outcome.writes[1].id].d.count = UndefinedNumber

\* C23: delete, set and update of a GeoTransaction do the same whether they
\* are given a GeoDocumentReference or the native DocumentReference of the
\* document. The native transaction is handed the native reference and the
\* same write either way, and after the commit the document the reference
\* names is gone when its last write was a delete, and otherwise holds
\* under d every field of the payload, and nothing else after a set without
\* merge, which is what data() of the Geo snapshot shows.
C23_EitherReferenceSameEffect ==
  /\ \A i \in DOMAIN staged :
       staged[i].by = "transaction"
         => /\ staged[i].ref = DocumentReference(staged[i].given.id)
            /\ staged[i].write.id = staged[i].given.id
  /\ (outcome.by = "transaction" /\ outcome.status = "committed")
       => \A i \in DOMAIN outcome.writes :
            (\A j \in (i + 1)..Len(outcome.writes) :
               outcome.given[j].id # outcome.given[i].id)
              => IF outcome.writes[i].op = "delete"
                 THEN store[outcome.given[i].id] = NoDoc
                 ELSE /\ store[outcome.given[i].id] # NoDoc
                      /\ mergePayload(store[outcome.given[i].id].d, outcome.writes[i].call.data)
                           = store[outcome.given[i].id].d
                      /\ (outcome.writes[i].op = "set" /\ ~outcome.writes[i].merge)
                           => /\ store[outcome.given[i].id].d = outcome.writes[i].call.data
                              /\ snapshotData(store[outcome.given[i].id])
                                   = outcome.writes[i].call.data

\* A transaction set one document through its GeoDocumentReference and
\* another through its native DocumentReference, with the same payload: both
\* documents hold it under d.
C23_Witness ==
  /\ outcome.by = "transaction"
  /\ outcome.status = "committed"
  /\ Len(outcome.writes) = 2
  /\ outcome.given[1].geo
  /\ ~outcome.given[2].geo
  /\ outcome.given[1].id # outcome.given[2].id
  /\ outcome.writes[1].op = "set"
  /\ outcome.writes[2].op = "set"
  /\ outcome.writes[1].call.data = outcome.writes[2].call.data
  /\ store[outcome.given[1].id] # NoDoc
  /\ store[outcome.given[1].id].d = store[outcome.given[2].id].d

\* C24: a GeoWriteBatch writes nothing before commit(), and commit() writes
\* all of it or none. A set, update or delete added to a batch leaves the
\* store as it was, and so does commit() until the store answers; after a
\* commit that was rejected the store is as the commit found it; after one
\* that succeeded every document the batch wrote shows the last write the
\* batch made to it, and every other document is as the commit found it.
C24_BatchAllOrNothing ==
  outcome.by = "batch"
    => /\ outcome.status \in {"staged", "pending", "rejected", "InvalidArgument"}
            => store = outcome.before
       /\ outcome.status = "committed"
            => /\ \A id \in DocIds :
                    (\A i \in DOMAIN outcome.writes : outcome.writes[i].id # id)
                      => store[id] = outcome.before[id]
               /\ \A i \in DOMAIN outcome.writes :
                    (\A j \in (i + 1)..Len(outcome.writes) :
                       outcome.writes[j].id # outcome.writes[i].id)
                      => IF outcome.writes[i].op = "delete"
                         THEN store[outcome.writes[i].id] = NoDoc
                         ELSE /\ store[outcome.writes[i].id] # NoDoc
                              /\ outcome.writes[i].doc.l # UndefinedPoint
                                   => /\ store[outcome.writes[i].id].g = outcome.writes[i].doc.g
                                      /\ store[outcome.writes[i].id].l = outcome.writes[i].doc.l
                              /\ mergePayload(store[outcome.writes[i].id].d,
                                              outcome.writes[i].doc.d)
                                   = store[outcome.writes[i].id].d
                              /\ (outcome.writes[i].op = "set" /\ ~outcome.writes[i].merge)
                                   => store[outcome.writes[i].id] = outcome.writes[i].doc

\* A batch that set two documents was committed: both are there, and
\* neither was before.
C24_Witness ==
  /\ outcome.by = "batch"
  /\ outcome.status = "committed"
  /\ Len(outcome.writes) = 2
  /\ outcome.writes[1].op = "set"
  /\ outcome.writes[2].op = "set"
  /\ outcome.writes[1].id # outcome.writes[2].id
  /\ outcome.before[outcome.writes[1].id] = NoDoc
  /\ outcome.before[outcome.writes[2].id] = NoDoc
  /\ store[outcome.writes[1].id] # NoDoc
  /\ store[outcome.writes[2].id] # NoDoc

\* The last write call, thrown or not, and whether its payload holds a
\* location under the key the caller named.
LastCalls ==
  IF outcome.call # NoWrite THEN {outcome.call}
  ELSE IF outcome.status = "staged" \/ outcome.by \in {"collection", "reference"}
       THEN {outcome.writes[i].call : i \in DOMAIN outcome.writes} \ {NoWrite}
       ELSE {}

HoldsLocation(call) ==
  LET key == IF call.customKey = NoKey THEN "coordinates" ELSE call.customKey
      at  == IF key = "coordinates" THEN call.data.coordinates ELSE call.data.place
  IN  /\ at # UndefinedPoint
      /\ at[1] >= -(HalfTurn \div 2) /\ at[1] <= HalfTurn \div 2
      /\ at[2] >= -HalfTurn /\ at[2] <= HalfTurn

\* C25: add, set or update with a payload that holds no valid location under
\* the location key (coordinates, or the key the caller names) fails with
\* InvalidArgument and makes no native write, and add with a payload that is
\* no object throws and makes none: the store is as the call found it.
C25_NoLocationNoWrite ==
  \A call \in LastCalls :
    /\ call.data = ArrayPayload
         => /\ outcome.status = "Error"
            /\ outcome.writes = <<>>
            /\ store = outcome.before
    /\ (call.data # ArrayPayload /\ ~HoldsLocation(call))
         => /\ outcome.status = "InvalidArgument"
            /\ outcome.writes = <<>>
            /\ store = outcome.before

\* C26: filters come before the decomposition and go into every range read.
\* where() returns a GeoQuery on the native query of the receiver with one
\* more filter, on the field path inside d, and with the center, the radius
\* and the limit of the receiver; every range read of a get() carries the
\* filters of the native query of the GeoQuery it is called on.
C26_FiltersInEveryRange ==
  /\ made.via = "where"
       => /\ made.threw = NoError
          /\ made.on.kind = qNative.kind
          /\ made.on.limit = qNative.limit
          /\ qNative.where \subseteq made.on.where
          /\ \E f \in made.on.where :
               /\ Head(f.path) = "d"
               /\ Tail(f.path) \in FieldPaths
               /\ f.value \in FieldValues
               /\ made.on.where = qNative.where \cup {f}
          /\ made.query.limit = qLimit
          /\ made.query.center = qCenter
          /\ made.query.radius = qRadius
  /\ (getMode = "geo" /\ getState # "idle")
       => \A i \in DOMAIN reads :
            /\ reads[i].query.kind = "range"
            /\ reads[i].query.where = qNative.where

\* The [start, end] pairs of the reads issued.
ReadRanges == {<<reads[i].query.startAt, reads[i].query.endAt>> : i \in DOMAIN reads}

\* C27: the range reads of one geo get() are duplicate-free. No two reads
\* have the same [start, end], and there is exactly one read for each
\* distinct range of the decomposition of the center and radius.
C27_RangeReadsDistinct ==
  (getMode = "geo" /\ getState # "idle")
    => /\ \A i, j \in DOMAIN reads :
            (reads[i].query.startAt = reads[j].query.startAt
               /\ reads[i].query.endAt = reads[j].query.endAt) => i = j
       /\ LET ranges == geohashQueries(qCenter, qRadius * 1000)
          IN  /\ ReadRanges = {ranges[k] : k \in DOMAIN ranges}
              /\ Len(reads) = Cardinality({ranges[k] : k \in DOMAIN ranges})

\* A geo get() issued three reads or more.
C27_Witness ==
  /\ getMode = "geo"
  /\ getState = "pending"
  /\ Len(reads) >= 3
  /\ Cardinality(ReadRanges) = Len(reads)

\* C28: the GeoQuery that near(), limit() or where() returns holds the
\* center, the radius and the limit that the receiver holds after the call.
C28_ReturnedQueryEqualsReceiver ==
  (made.via \in {"near", "limit", "where"} /\ made.threw = NoError)
    => /\ made.query.center = qCenter
       /\ made.query.radius = qRadius
       /\ made.query.limit = qLimit

=============================================================================
